---- MODULE Spec2Model ----
(***************************************************************************)
(* on-the-gpu: the launcher (src/main.rs).                                 *)
(*                                                                         *)
(* main records the invocation in the last-run file, rejects an empty      *)
(* command, resolves the command and the extra environment from the GPU    *)
(* mode, and either runs run_game_with_logs (--logs) or prints the banner  *)
(* and replaces itself with the command (execvp / execvpe).                *)
(*                                                                         *)
(* run_game_with_logs opens a new compressed log file, writes the banner   *)
(* to the live stream and to the log, allocates a pipe, spawns the child   *)
(* with stdout = stderr = the pipe's write end, closes its own write end,  *)
(* tees the pipe's read end to {live stream, log}, and waits for the       *)
(* child.  Every `?` of the source is an error return that drops the       *)
(* locals of the function; every `.await` is a suspension point at which   *)
(* the child process may run.                                              *)
(*                                                                         *)
(* Byte streams are sequences of units.  A unit is a 4-tuple               *)
(* <<kind, index, text1, text2>>: one line of the banner, the line         *)
(* "Game started.", or one byte of child output.                           *)
(***************************************************************************)
EXTENDS Integers, Sequences, FiniteSets, TLC

\* ------------------------------------------------------------------ bounds
\* Length of tee's buffer.  The source's buffer holds 1024 bytes
\* (main.rs:262); the model keeps the code's shape and scales the length.
BufSize == 2
\* The child writes at most MaxOut bytes in a run.
MaxOut == 4
\* Capacity of the kernel's pipe buffer; a writer blocks when it is full.
PipeCap == 3

\* ------------------------------------------------------------------ data
Min(x, y) == IF x < y THEN x ELSE y

\* The byte values a child writes (the stub child of the end-to-end
\* scenario writes "A" to stdout and "B" to stderr).
Bytes == {"A", "B"}

Byte(b) == <<"byte", 0, b, "">>

\* enum GpuMode
GpuMode == {"None", "NvPrimeRun", "Pvkrun", "Primusrun", "Optirun"}

\* The command lines a run is started with (Args::command, non-empty here:
\* main exits before the resolver when it is empty).
Argvs == {<<"g">>, <<"g", "-x">>}

\* The command lines main is started with; the command may be empty.
MainArgvs == {<< >>, <<"g", "-x">>}

\* Args::gpu is an Option<GpuMode>; "NoGpu" is the absent --gpu.
GpuArgs == GpuMode \cup {"NoGpu"}

\* impl IntoIterator for &ExtraEnv
ExtraEnvIter(e) ==
    IF e = "NvPrimeRun"
    THEN << <<"__NV_PRIME_RENDER_OFFLOAD", "1">>,
            <<"__VK_LAYER_NV_optimus", "NVIDIA_only">>,
            <<"__GLX_VENDOR_LIBRARY_NAME", "nvidia">> >>
    ELSE << >>

\* The Optirun arm pasted from the Primusrun arm, its wrapper name unchanged.
Resolve_copy_paste(gpu_mode, argv) ==
    CASE gpu_mode = "None"       -> <<argv, "None">>
      [] gpu_mode = "NvPrimeRun" -> <<argv, "NvPrimeRun">>
      [] gpu_mode = "Pvkrun"     -> <<<<"pvkrun">> \o argv, "None">>
      [] gpu_mode = "Primusrun"  -> <<<<"primusrun">> \o argv, "None">>
      [] gpu_mode = "Optirun"    -> <<<<"primusrun">> \o argv, "None">>

\* main: let (cmd_to_run, extra_env) = match gpu_mode { ... }
Resolve(gpu_mode, argv) ==
    CASE gpu_mode = "None"       -> <<argv, "None">>
      [] gpu_mode = "NvPrimeRun" -> <<argv, "NvPrimeRun">>
      [] gpu_mode = "Pvkrun"     -> <<<<"pvkrun">> \o argv, "None">>
      [] gpu_mode = "Primusrun"  -> <<<<"primusrun">> \o argv, "None">>
      [] gpu_mode = "Optirun"    -> <<<<"optirun">> \o argv, "None">>

\* print_cmd: the banner, one unit per line written.
print_cmd(cmd, e) ==
    << <<"start", 0, "", "">>, <<"cwd", 0, "", "">> >>
    \o (IF e = "None"
        THEN << <<"env_same", 0, "", "">> >>
        ELSE << <<"env_header", 0, "", "">> >>
             \o [i \in 1..Len(ExtraEnvIter(e)) |->
                    <<"env", 0, ExtraEnvIter(e)[i][1], ExtraEnvIter(e)[i][2]>>])
    \o << <<"arguments", 0, "", "">> >>
    \o [i \in 1..Len(cmd) |-> <<"argv", i - 1, cmd[i], "">>]

\* The environments main inherits: one without and one with a variable that
\* extra_env also sets.
EnvPlain == << <<"HOME", "/home/u">> >>
EnvConflict == << <<"HOME", "/home/u">>, <<"__NV_PRIME_RENDER_OFFLOAD", "0">> >>
Envs == {EnvPlain, EnvConflict}

\* The names an environment block defines.
Names(e) == {e[i][1] : i \in 1..Len(e)}

\* Keep the entries of e whose name is not in ks.
RECURSIVE Without(_, _)
Without(e, ks) ==
    IF e = << >> THEN << >>
    ELSE IF Head(e)[1] \in ks THEN Without(Tail(e), ks)
    ELSE <<Head(e)>> \o Without(Tail(e), ks)

\* Command::envs(&extra_env) (main.rs:238): the child inherits the
\* environment with every variable of extra_env set, replacing an inherited
\* variable of the same name.
SpawnEnv(inherited, e) ==
    Without(inherited, Names(ExtraEnvIter(e))) \o ExtraEnvIter(e)

\* main.rs:122-141: execvp keeps the environment; execvpe gets every inherited
\* "k=v" followed by the "k=v" of extra_env.
ExecEnv(inherited, e) ==
    IF e = "None" THEN inherited ELSE inherited \o ExtraEnvIter(e)

\* The exit statuses of a child: exited(0), exited(non-zero), killed(signal).
ExitStatuses == {"exited_0", "exited_1", "killed"}

\* b"Game started.\n"
GameStartedText == << <<"game_started", 0, "", "">> >>

\* The content of a log file left by an earlier run.
OldFile == "old"

VARIABLES
    pc,            \* position of run_game_with_logs / tee
    err,           \* which `?` (or unwrap) ended the run, "none" if none
    command,       \* command: Vec<OsString>
    extra_env,     \* extra_env: ExtraEnv
    fs,            \* the file at log_path: "absent", "old" (pre-existing), "new"
    log_open,      \* the log sink (file + ZstdEncoder) has been opened
    log_file,      \* bytes fed to log_file (the ZstdEncoder), in order
    stderr,        \* bytes accepted by the live stream, in order
    pipe,          \* bytes in the pipe, written and not yet read
    r,             \* the read end: "none", "open", "closed"
    w_handles,     \* write-end handles open in the supervisor
    child,         \* "none", "running", "exited", "reaped"
    child_handles, \* write-end handles open in the child
    child_out,     \* every byte the child has written, in order
    buf,           \* tee: &buf[..len] of the current iteration
    a_pos,         \* tee: bytes of buf accepted by a (write_all's progress)
    b_pos,         \* tee: bytes of buf accepted by b
    a_write,       \* tee: "idle", "pending", "ok", "err"
    b_write,       \* tee: "idle", "pending", "ok", "err"
    first_fail,    \* tee: the sink whose write failed first, "none" if none
    rd,            \* tee: every byte read from rdr, in order
    eof,           \* tee: rdr.read returned 0
    tee_ret,       \* tee: "none" (not called), "running", "ok", "err"
    a_base,        \* Len(stderr) when tee was called
    b_base,        \* Len(log_file) when tee was called
    a_shutdowns,   \* number of a.shutdown() calls
    b_shutdowns,   \* number of b.shutdown() calls (the log's finalize)
    spawns,        \* number of spawn() calls
    waited,        \* child.wait() has returned
    args,          \* Args, as parsed: [command, gpu, logs]
    env,           \* the environment main inherited: a sequence of <<name, value>>
    last_run,      \* the last-run file: "none", "written"
    child_env,     \* the environment handed to the command
    child_status   \* the ExitStatus child.wait() returned, "none" before

vars == <<pc, err, command, extra_env, fs, log_open, log_file, stderr, pipe,
          r, w_handles, child, child_handles, child_out, buf, a_pos, b_pos,
          a_write, b_write, first_fail, rd, eof, tee_ret, a_base, b_base,
          a_shutdowns, b_shutdowns, spawns, waited, args, env, last_run,
          child_env, child_status>>

intro == print_cmd(command, extra_env)

\* Nothing has been written, opened, spawned or relayed yet.
NothingDone ==
    /\ err = "none"
    /\ log_open = FALSE
    /\ log_file = << >>
    /\ stderr = << >>
    /\ pipe = << >>
    /\ r = "none"
    /\ w_handles = {}
    /\ child = "none"
    /\ child_handles = {}
    /\ child_out = << >>
    /\ buf = << >>
    /\ a_pos = 0
    /\ b_pos = 0
    /\ a_write = "idle"
    /\ b_write = "idle"
    /\ first_fail = "none"
    /\ rd = << >>
    /\ eof = FALSE
    /\ tee_ret = "none"
    /\ a_base = 0
    /\ b_base = 0
    /\ a_shutdowns = 0
    /\ b_shutdowns = 0
    /\ spawns = 0
    /\ waited = FALSE

\* The state in which main calls run_game_with_logs (main.rs:107).
Init ==
    /\ \E m \in GpuMode, argv \in Argvs :
          /\ args = [command |-> argv, gpu |-> m, logs |-> TRUE]
          /\ command = Resolve(m, argv)[1]
          /\ extra_env = Resolve(m, argv)[2]
    /\ env = EnvConflict
    /\ last_run = "written"
    /\ child_env = << >>
    /\ child_status = "none"
    /\ fs \in {"absent", OldFile}
    /\ pc = "open_log"
    /\ NothingDone

\* ------------------------------------------------------------ frame groups
cfgVars   == <<command, extra_env, args, env, last_run>>
childVars == <<child, child_handles, child_out, child_env, child_status>>
teeVars   == <<buf, a_pos, b_pos, a_write, b_write, first_fail, rd, eof,
               tee_ret, a_base, b_base, a_shutdowns, b_shutdowns>>

\* An error return that leaves the pipe's ends open (ends held as raw
\* descriptors, which no drop closes).
Fail_leak(kind) ==
    /\ pc' = "errored"
    /\ err' = kind
    /\ UNCHANGED <<r, w_handles>>

\* An error return (`?`) or a panic: the function's locals are dropped, which
\* closes the pipe ends the supervisor still holds.  Dropping log_file (the
\* ZstdEncoder) closes the file without calling shutdown.
Fail(kind) ==
    /\ pc' = "errored"
    /\ err' = kind
    /\ r' = IF r = "open" THEN "closed" ELSE r
    /\ w_handles' = {}

\* The open as create(true).truncate(true) would do it.
CreateNew_truncate(f) == [ok |-> TRUE, fs |-> "new"]

\* File::options().create_new(true).write(true).open(log_path): the state of
\* the file afterwards and whether the open succeeded.
CreateNew(f) ==
    IF f = "absent" THEN [ok |-> TRUE, fs |-> "new"]
                    ELSE [ok |-> FALSE, fs |-> f]

\* main.rs:201-208  File::options().create_new(true)...open(log_path)
\*                  .context("failed to open log file for writing")?
\* The open also fails, creating nothing, on any other I/O error.
OpenLog ==
    /\ pc = "open_log"
    /\ \/ /\ fs' = CreateNew(fs).fs
          /\ IF CreateNew(fs).ok
             THEN /\ log_open' = TRUE
                  /\ pc' = "banner_stderr"
                  /\ UNCHANGED <<err, r, w_handles>>
             ELSE /\ Fail("open_log")
                  /\ UNCHANGED log_open
       \/ /\ Fail("open_log")
          /\ UNCHANGED <<fs, log_open>>
    /\ UNCHANGED <<cfgVars, log_file, stderr, pipe, childVars, teeVars,
                   spawns, waited>>

\* A single write in place of write_all: one unit is accepted.
WriteAllOk_once(out, data) == out \o SubSeq(data, 1, 1)

\* write_all(data) on a sink whose content is out: the contents the sink can
\* have when write_all succeeds, and when it fails (a strict prefix of data
\* was accepted).
WriteAllOk(out, data) == out \o data
WriteAllErr(out, data) ==
    {out \o SubSeq(data, 1, k) : k \in 0..(Len(data) - 1)}

\* main.rs:219  stderr.write_all(&intro).await?
BannerStderr ==
    /\ pc = "banner_stderr"
    /\ \/ /\ stderr' = WriteAllOk(stderr, intro)
          /\ pc' = "banner_log"
          /\ UNCHANGED <<err, r, w_handles>>
       \/ /\ stderr' \in WriteAllErr(stderr, intro)
          /\ Fail("banner_stderr")
    /\ UNCHANGED <<cfgVars, fs, log_open, log_file, pipe, childVars, teeVars,
                   spawns, waited>>

\* The banner written to the live stream only.
BannerLog_skip ==
    /\ pc = "banner_log"
    /\ pc' = "pipe"
    /\ UNCHANGED <<err, r, w_handles, log_file, cfgVars, fs, log_open, stderr,
                   pipe, childVars, teeVars, spawns, waited>>

\* main.rs:220  log_file.write_all(&intro).await?
BannerLog ==
    /\ pc = "banner_log"
    /\ \/ /\ log_file' = WriteAllOk(log_file, intro)
          /\ pc' = "pipe"
          /\ UNCHANGED <<err, r, w_handles>>
       \/ /\ log_file' \in WriteAllErr(log_file, intro)
          /\ Fail("banner_log")
    /\ UNCHANGED <<cfgVars, fs, log_open, stderr, pipe, childVars, teeVars,
                   spawns, waited>>

\* main.rs:222  let (mut r, w) = tokio_pipe::pipe()?
Pipe ==
    /\ pc = "pipe"
    /\ \/ /\ r' = "open"
          /\ w_handles' = {"w"}
          /\ pc' = "dup_stdout"
          /\ UNCHANGED err
       \/ Fail("pipe")
    /\ UNCHANGED <<cfgVars, fs, log_open, log_file, stderr, pipe, childVars,
                   teeVars, spawns, waited>>

\* main.rs:224-225  Stdio::from(w_fd.try_clone_to_owned().unwrap())
DupStdout ==
    /\ pc = "dup_stdout"
    /\ \/ /\ w_handles' = w_handles \cup {"cmd_stdout"}
          /\ pc' = "dup_stderr"
          /\ UNCHANGED <<err, r>>
       \/ Fail("dup_stdout")
    /\ UNCHANGED <<cfgVars, fs, log_open, log_file, stderr, pipe, childVars,
                   teeVars, spawns, waited>>

\* main.rs:226  Stdio::from(w_fd.try_clone_to_owned().unwrap())
DupStderr ==
    /\ pc = "dup_stderr"
    /\ \/ /\ w_handles' = w_handles \cup {"cmd_stderr"}
          /\ pc' = "spawn"
          /\ UNCHANGED <<err, r>>
       \/ Fail("dup_stderr")
    /\ UNCHANGED <<cfgVars, fs, log_open, log_file, stderr, pipe, childVars,
                   teeVars, spawns, waited>>

\* The Command outliving the spawn statement: it keeps both duplicates open.
AfterSpawn_keep(h) == h

\* The supervisor's write-end handles after the spawn statement: cmd_stdout
\* and cmd_stderr were moved into the Command, a temporary that is dropped at
\* the end of the statement; w is only borrowed.
AfterSpawn(h) == h \ {"cmd_stdout", "cmd_stderr"}

\* main.rs:236-242  Command::new(cmd_bin)...spawn().context(..)?
\* The child gets its own copies of the two handles as fds 1 and 2.
Spawn ==
    /\ pc = "spawn"
    /\ spawns' = spawns + 1
    /\ \/ /\ child' = "running"
          /\ child_handles' = {"stdout", "stderr"}
          /\ w_handles' = AfterSpawn(w_handles)
          /\ child_env' = SpawnEnv(env, extra_env)
          /\ pc' = "drop_w"
          /\ UNCHANGED <<err, r, child_out, child_status>>
       \/ /\ Fail("spawn")
          /\ UNCHANGED childVars
    /\ UNCHANGED <<cfgVars, fs, log_open, log_file, stderr, pipe, teeVars,
                   waited>>

\* The supervisor going on without closing its write end.
DropW_leak ==
    /\ pc = "drop_w"
    /\ pc' = "game_started"
    /\ UNCHANGED <<err, cfgVars, fs, log_open, log_file, stderr, pipe, r,
                   w_handles, childVars, teeVars, spawns, waited>>

\* main.rs:245  drop(w)
DropW ==
    /\ pc = "drop_w"
    /\ w_handles' = w_handles \ {"w"}
    /\ pc' = "game_started"
    /\ UNCHANGED <<err, cfgVars, fs, log_open, log_file, stderr, pipe, r,
                   childVars, teeVars, spawns, waited>>

\* main.rs:247-248  log_file.write_all(b"Game started.\n").await?;
\*                  tee(&mut r, &mut stderr, &mut log_file)   (the call)
GameStarted ==
    /\ pc = "game_started"
    /\ \/ /\ log_file' = WriteAllOk(log_file, GameStartedText)
          /\ pc' = "tee_read"
          /\ tee_ret' = "running"
          /\ a_base' = Len(stderr)
          /\ b_base' = Len(log_file')
          /\ UNCHANGED <<err, r, w_handles>>
       \/ /\ log_file' \in WriteAllErr(log_file, GameStartedText)
          /\ Fail("game_started")
          /\ UNCHANGED <<tee_ret, a_base, b_base>>
    /\ UNCHANGED <<cfgVars, fs, log_open, stderr, pipe, childVars, buf, a_pos,
                   b_pos, a_write, b_write, first_fail, rd, eof, a_shutdowns,
                   b_shutdowns, spawns, waited>>

\* ------------------------------------------------------------------- tee
\* rdr.read(&mut buf): the lengths a read of a pipe holding p can return.
ReadLens(p) == 1..Min(BufSize, Len(p))

\* An empty pipe taken for the end of the stream.
AtEof_empty(p, writers) == p = << >>

\* A read of the pipe returns 0 when the pipe holds no byte and no write end
\* is open, in the supervisor or elsewhere; until then it stays pending.
AtEof(p, writers) == p = << >> /\ writers = {}

\* main.rs:264-267  let len = rdr.read(&mut buf).await?; if len == 0 { break }
TeeRead ==
    /\ pc = "tee_read"
    /\ \/ /\ pipe # << >>
          /\ \E n \in ReadLens(pipe) :
                /\ buf' = SubSeq(pipe, 1, n)
                /\ pipe' = SubSeq(pipe, n + 1, Len(pipe))
          /\ rd' = rd \o buf'
          /\ a_pos' = 0
          /\ b_pos' = 0
          /\ a_write' = "pending"
          /\ b_write' = "pending"
          /\ pc' = "tee_write"
          /\ UNCHANGED <<err, r, w_handles, eof, tee_ret>>
       \/ /\ AtEof(pipe, w_handles \cup child_handles)
          /\ eof' = TRUE
          /\ pc' = "tee_shutdown_a"
          /\ UNCHANGED <<err, r, w_handles, pipe, buf, a_pos, b_pos, a_write,
                         b_write, rd, tee_ret>>
       \/ /\ Fail("read")
          /\ tee_ret' = "err"
          /\ UNCHANGED <<pipe, buf, a_pos, b_pos, a_write, b_write, rd, eof>>
    /\ UNCHANGED <<cfgVars, fs, log_open, log_file, stderr, childVars,
                   first_fail, a_base, b_base, a_shutdowns, b_shutdowns,
                   spawns, waited>>

\* write_all resuming from the start of the buffer after a partial write.
Accept_restart(out, data, pos, k) == out \o SubSeq(data, 1, k)

\* One poll_write of write_all(&buf[..len]): the sink, holding out and having
\* accepted pos bytes of data, accepts the next k.
Accept(out, data, pos, k) == out \o SubSeq(data, pos + 1, pos + k)

\* main.rs:268  a.write_all(&buf[..len]), one step of the first future of join!
AWrite ==
    /\ pc = "tee_write"
    /\ a_write = "pending"
    /\ \/ \E k \in 1..(Len(buf) - a_pos) :
             /\ stderr' = Accept(stderr, buf, a_pos, k)
             /\ a_pos' = a_pos + k
             /\ a_write' = IF a_pos' = Len(buf) THEN "ok" ELSE "pending"
             /\ UNCHANGED first_fail
       \/ /\ a_write' = "err"
          /\ first_fail' = IF first_fail = "none" THEN "a" ELSE first_fail
          /\ UNCHANGED <<stderr, a_pos>>
    /\ UNCHANGED <<pc, err, cfgVars, fs, log_open, log_file, pipe, r,
                   w_handles, childVars, buf, b_pos, b_write, rd, eof, tee_ret,
                   a_base, b_base, a_shutdowns, b_shutdowns, spawns, waited>>

\* main.rs:268  b.write_all(&buf[..len]), one step of the second future of join!
BWrite ==
    /\ pc = "tee_write"
    /\ b_write = "pending"
    /\ \/ \E k \in 1..(Len(buf) - b_pos) :
             /\ log_file' = Accept(log_file, buf, b_pos, k)
             /\ b_pos' = b_pos + k
             /\ b_write' = IF b_pos' = Len(buf) THEN "ok" ELSE "pending"
             /\ UNCHANGED first_fail
       \/ /\ b_write' = "err"
          /\ first_fail' = IF first_fail = "none" THEN "b" ELSE first_fail
          /\ UNCHANGED <<log_file, b_pos>>
    /\ UNCHANGED <<pc, err, cfgVars, fs, log_open, stderr, pipe, r, w_handles,
                   childVars, buf, a_pos, a_write, rd, eof, tee_ret, a_base,
                   b_base, a_shutdowns, b_shutdowns, spawns, waited>>

\* A join that completes with the first future to complete.
JoinReady_any(ra, rb) == ra # "pending" \/ rb # "pending"

\* tokio::join!(fa, fb) completes when both futures have completed.
JoinReady(ra, rb) == ra # "pending" /\ rb # "pending"

\* The result of b's write left unexamined.
JoinResult_a_only(ra, rb) == IF ra = "err" THEN "a_write" ELSE "ok"

\* main.rs:269-270  a_write?; b_write?;
JoinResult(ra, rb) ==
    IF ra = "err" THEN "a_write"
    ELSE IF rb = "err" THEN "b_write"
    ELSE "ok"

\* main.rs:268-271  the join! completes; the results are examined; loop.
TeeJoin ==
    /\ pc = "tee_write"
    /\ JoinReady(a_write, b_write)
    /\ IF JoinResult(a_write, b_write) = "ok"
       THEN /\ pc' = "tee_read"
            /\ buf' = << >>
            /\ a_pos' = 0
            /\ b_pos' = 0
            /\ a_write' = "idle"
            /\ b_write' = "idle"
            /\ UNCHANGED <<err, r, w_handles, tee_ret>>
       ELSE /\ Fail(JoinResult(a_write, b_write))
            /\ tee_ret' = "err"
            /\ UNCHANGED <<buf, a_pos, b_pos, a_write, b_write>>
    /\ UNCHANGED <<cfgVars, fs, log_open, log_file, stderr, pipe, childVars,
                   first_fail, rd, eof, a_base, b_base, a_shutdowns,
                   b_shutdowns, spawns, waited>>

\* main.rs:272  a.shutdown().await?
ShutdownA ==
    /\ pc = "tee_shutdown_a"
    /\ a_shutdowns' = a_shutdowns + 1
    /\ \/ /\ pc' = "tee_shutdown_b"
          /\ UNCHANGED <<err, r, w_handles, tee_ret>>
       \/ /\ Fail("a_shutdown")
          /\ tee_ret' = "err"
    /\ UNCHANGED <<cfgVars, fs, log_open, log_file, stderr, pipe, childVars,
                   buf, a_pos, b_pos, a_write, b_write, first_fail, rd, eof,
                   a_base, b_base, b_shutdowns, spawns, waited>>

\* tee called with r instead of &mut r: the read end is dropped when tee
\* returns.
ShutdownB_drops_r ==
    /\ pc = "tee_shutdown_b"
    /\ b_shutdowns' = b_shutdowns + 1
    /\ r' = "closed"
    /\ \/ /\ pc' = "wait"
          /\ tee_ret' = "ok"
          /\ UNCHANGED <<err, w_handles>>
       \/ /\ pc' = "errored"
          /\ err' = "b_shutdown"
          /\ w_handles' = {}
          /\ tee_ret' = "err"
    /\ UNCHANGED <<cfgVars, fs, log_open, log_file, stderr, pipe, childVars,
                   buf, a_pos, b_pos, a_write, b_write, first_fail, rd, eof,
                   a_base, b_base, a_shutdowns, spawns, waited>>

\* main.rs:273-274  b.shutdown().await?; Ok(())
\* b is the log's ZstdEncoder: shutdown writes the frame's end and flushes.
ShutdownB ==
    /\ pc = "tee_shutdown_b"
    /\ b_shutdowns' = b_shutdowns + 1
    /\ \/ /\ pc' = "wait"
          /\ tee_ret' = "ok"
          /\ UNCHANGED <<err, r, w_handles>>
       \/ /\ Fail("b_shutdown")
          /\ tee_ret' = "err"
    /\ UNCHANGED <<cfgVars, fs, log_open, log_file, stderr, pipe, childVars,
                   buf, a_pos, b_pos, a_write, b_write, first_fail, rd, eof,
                   a_base, b_base, a_shutdowns, spawns, waited>>

\* ------------------------------------------------------- after the relay
\* main.rs:249  child.wait().await?
\* wait returns the status the child terminated with; the statement drops it.
Wait ==
    /\ pc = "wait"
    /\ \/ /\ child = "exited"
          /\ child' = "reaped"
          /\ child_status' \in ExitStatuses
          /\ waited' = TRUE
          /\ pc' = "drop_r"
          /\ UNCHANGED <<err, r, w_handles>>
       \/ /\ Fail("wait")
          /\ UNCHANGED <<child, child_status, waited>>
    /\ UNCHANGED <<cfgVars, fs, log_open, log_file, stderr, pipe,
                   child_handles, child_out, child_env, teeVars, spawns>>

\* main.rs:250-253  drop(r); drop(child); Ok(())
DropR ==
    /\ pc = "drop_r"
    /\ r' = "closed"
    /\ pc' = "done"
    /\ UNCHANGED <<err, cfgVars, fs, log_open, log_file, stderr, pipe,
                   w_handles, childVars, teeVars, spawns, waited>>

\* ------------------------------------------------------------- the child
\* The child writes one byte to its stdout or stderr; both are the pipe.
ChildWrite ==
    /\ child = "running"
    /\ r = "open"
    /\ Len(child_out) < MaxOut
    /\ Len(pipe) < PipeCap
    /\ \E h \in child_handles, b \in Bytes :
          /\ pipe' = Append(pipe, Byte(b))
          /\ child_out' = Append(child_out, Byte(b))
    /\ UNCHANGED <<pc, err, cfgVars, fs, log_open, log_file, stderr, r,
                   w_handles, child, child_handles, child_env, child_status,
                   teeVars, spawns, waited>>

\* The child closes its stdout or its stderr.
ChildClose ==
    /\ child = "running"
    /\ \E h \in child_handles : child_handles' = child_handles \ {h}
    /\ UNCHANGED <<pc, err, cfgVars, fs, log_open, log_file, stderr, pipe, r,
                   w_handles, child, child_out, child_env, child_status,
                   teeVars, spawns, waited>>

\* The child terminates; the kernel closes the handles it still holds.
ChildExit ==
    /\ child = "running"
    /\ child' = "exited"
    /\ child_handles' = {}
    /\ UNCHANGED <<pc, err, cfgVars, fs, log_open, log_file, stderr, pipe, r,
                   w_handles, child_out, child_env, child_status, teeVars,
                   spawns, waited>>

\* ------------------------------------------------------------------ main
\* main.rs:67  let args = Args::parse()
MainInit ==
    /\ args \in [command : MainArgvs, gpu : GpuArgs, logs : BOOLEAN]
    /\ env \in Envs
    /\ command = << >>
    /\ extra_env = "None"
    /\ last_run = "none"
    /\ child_env = << >>
    /\ child_status = "none"
    /\ fs \in {"absent", OldFile}
    /\ pc = "log_run"
    /\ NothingDone

mainFrame == <<fs, log_open, log_file, pipe, childVars, teeVars, spawns, waited>>

\* main.rs:68, 280-300  log_run(&args).unwrap(): the last-run file is created
\* (truncated) and written; a failure panics.
LogRun ==
    /\ pc = "log_run"
    /\ \/ /\ last_run' = "written"
          /\ pc' = "check_empty"
          /\ UNCHANGED <<err, r, w_handles>>
       \/ /\ Fail("log_run")
          /\ last_run' \in {"none", "written"}
    /\ UNCHANGED <<command, extra_env, args, env, stderr, mainFrame>>

\* The check of the command left out.
IsEmpty_never(cmd) == FALSE

\* args.command.is_empty()
IsEmpty(cmd) == Len(cmd) = 0

\* eprintln!("Need at least 1 argument for the command to run.")
NeedCommandText == << <<"need_command", 0, "", "">> >>

\* main.rs:70-73  if args.command.is_empty() { eprintln!(..); exit(1) }
CheckEmpty ==
    /\ pc = "check_empty"
    /\ IF IsEmpty(args.command)
       THEN /\ stderr' = stderr \o NeedCommandText
            /\ pc' = "exit_1"
       ELSE /\ pc' = "resolve"
            /\ UNCHANGED stderr
    /\ UNCHANGED <<err, r, w_handles, cfgVars, mainFrame>>

\* main.rs:75  args.gpu.unwrap_or(GpuMode::NvPrimeRun)
DefaultGpu(g) == IF g = "NoGpu" THEN "NvPrimeRun" ELSE g

\* The two arms of the branch exchanged.
Branch_swapped(logs) == IF logs THEN "print_cmd" ELSE "runtime"

\* main.rs:102  if args.logs { .. } else { .. }
Branch(logs) == IF logs THEN "runtime" ELSE "print_cmd"

\* main.rs:75-102  the GPU mode, the resolved command, the branch on --logs
ResolveCmd ==
    /\ pc = "resolve"
    /\ command' = Resolve(DefaultGpu(args.gpu), args.command)[1]
    /\ extra_env' = Resolve(DefaultGpu(args.gpu), args.command)[2]
    /\ pc' = Branch(args.logs)
    /\ UNCHANGED <<err, r, w_handles, args, env, last_run, stderr, mainFrame>>

\* main.rs:103-107  the runtime is built (unwrap) and run_game_with_logs is
\* called on it.
StartRuntime ==
    /\ pc = "runtime"
    /\ \/ /\ pc' = "open_log"
          /\ UNCHANGED <<err, r, w_handles>>
       \/ Fail("runtime")
    /\ UNCHANGED <<cfgVars, stderr, mainFrame>>

\* main.rs:110-115  print_cmd(std::io::stderr(), ..).unwrap()
PrintCmd ==
    /\ pc = "print_cmd"
    /\ \/ /\ stderr' = WriteAllOk(stderr, intro)
          /\ pc' = "exec"
          /\ UNCHANGED <<err, r, w_handles>>
       \/ /\ stderr' \in WriteAllErr(stderr, intro)
          /\ Fail("print_cmd")
    /\ UNCHANGED <<cfgVars, mainFrame>>

\* main.rs:117-141  execvp / execvpe(..).unwrap(): on success the process is
\* the command from here on; on failure the unwrap panics.
Exec ==
    /\ pc = "exec"
    /\ \/ /\ child_env' = ExecEnv(env, extra_env)
          /\ pc' = "execd"
          /\ UNCHANGED <<err, r, w_handles>>
       \/ /\ Fail("exec")
          /\ UNCHANGED child_env
    /\ UNCHANGED <<cfgVars, stderr, fs, log_open, log_file, pipe, child,
                   child_handles, child_out, child_status, teeVars, spawns,
                   waited>>

\* The status main's process ends with: 0 when main returns, 1 from exit(1),
\* 101 from a panic (an unwrap of an Err); none once the process was replaced.
ExitCode ==
    CASE pc = "done" -> 0
      [] pc = "exit_1" -> 1
      [] pc = "errored" -> 101
      [] OTHER -> -1

Next ==
    \/ OpenLog
    \/ BannerStderr
    \/ BannerLog
    \/ Pipe
    \/ DupStdout
    \/ DupStderr
    \/ Spawn
    \/ DropW
    \/ GameStarted
    \/ TeeRead
    \/ AWrite
    \/ BWrite
    \/ TeeJoin
    \/ ShutdownA
    \/ ShutdownB
    \/ Wait
    \/ DropR
    \/ ChildWrite
    \/ ChildClose
    \/ ChildExit

Spec == Init /\ [][Next]_vars

\* The whole program, from main.
MainNext ==
    \/ LogRun
    \/ CheckEmpty
    \/ ResolveCmd
    \/ StartRuntime
    \/ PrintCmd
    \/ Exec
    \/ Next

MainSpec == MainInit /\ [][MainNext]_vars

\* One run of run_game_with_logs under fair scheduling: as long as a step
\* other than an I/O failure is possible, such a step is eventually taken (the
\* runtime polls the task whenever its I/O is ready, the sinks accept what is
\* written to them, the child terminates).  I/O failures may happen; nothing
\* forces them to.  The inputs are one command line of Init.
LiveInit ==
    /\ args = [command |-> <<"g", "-x">>, gpu |-> "NvPrimeRun", logs |-> TRUE]
    /\ command = Resolve(args.gpu, args.command)[1]
    /\ extra_env = Resolve(args.gpu, args.command)[2]
    /\ env = EnvConflict
    /\ last_run = "written"
    /\ child_env = << >>
    /\ child_status = "none"
    /\ fs \in {"absent", OldFile}
    /\ pc = "open_log"
    /\ NothingDone

\* A step in which an I/O operation fails: an error return taken for a reason
\* other than a failed write already recorded, or a write that fails.
IoFailure ==
    \/ pc' = "errored" /\ pc # "tee_write"
    \/ a_write' = "err" /\ a_write # "err"
    \/ b_write' = "err" /\ b_write # "err"

LiveSpec == LiveInit /\ [][Next]_vars /\ WF_vars(Next /\ ~IoFailure)

TypeOK ==
    /\ pc \in {"log_run", "check_empty", "resolve", "runtime", "print_cmd",
               "exec", "execd", "exit_1",
               "open_log", "banner_stderr", "banner_log", "pipe", "dup_stdout",
               "dup_stderr", "spawn", "drop_w", "game_started", "tee_read",
               "tee_write", "tee_shutdown_a", "tee_shutdown_b", "wait",
               "drop_r", "done", "errored"}
    /\ r \in {"none", "open", "closed"}
    /\ w_handles \subseteq {"w", "cmd_stdout", "cmd_stderr"}
    /\ child \in {"none", "running", "exited", "reaped"}
    /\ child_handles \subseteq {"stdout", "stderr"}
    /\ Len(buf) <= BufSize
    /\ a_pos \in 0..Len(buf)
    /\ b_pos \in 0..Len(buf)

\* ---------------------------------------------------------------- claims
\* What tee has delivered to a (the live stream) and to b (the log).
TeeA == SubSeq(stderr, a_base + 1, Len(stderr))
TeeB == SubSeq(log_file, b_base + 1, Len(log_file))

\* C1. Tee completeness: when tee returns success, the bytes it delivered to
\* sink a and the bytes it delivered to sink b are each exactly the bytes the
\* source delivered (everything the child wrote), in order, none skipped and
\* none duplicated, whatever the split into reads.
C1_TeeCompleteness ==
    tee_ret = "ok" => /\ rd = child_out
                      /\ TeeA = child_out
                      /\ TeeB = child_out

\* tee returned success after relaying at least three bytes, not all equal,
\* at least one of them read in a chunk of more than one byte.
C1_Witness ==
    /\ tee_ret = "ok"
    /\ Len(child_out) >= 3
    /\ child_out[1] # child_out[2]
    /\ TeeA = child_out
    /\ TeeB = child_out

\* C2. Pipe closure: the original write end is open until spawn has returned
\* (it is never closed before spawn); when spawn has returned both duplicates
\* are closed in the supervisor; and from the statement after spawn on, so
\* before the first read of the pipe, the supervisor holds no write end.
C2_PipeClosure ==
    /\ pc \in {"dup_stdout", "dup_stderr", "spawn"} => "w" \in w_handles
    /\ pc = "drop_w" => w_handles = {"w"}
    /\ pc \in {"game_started", "tee_read", "tee_write", "tee_shutdown_a",
               "tee_shutdown_b", "wait", "drop_r", "done"} => w_handles = {}

\* The supervisor is about to issue its first read, the child is running
\* with both of its copies open, and the supervisor holds no write end.
C2_Witness ==
    /\ pc = "tee_read"
    /\ rd = << >>
    /\ child = "running"
    /\ child_handles = {"stdout", "stderr"}
    /\ w_handles = {}

\* C3. Log sink finalized exactly once on every path: when a run in which
\* the log sink was opened has ended, in Done or in an error, the log
\* sink's shutdown has been invoked exactly once.
C3_FinalizedExactlyOnce ==
    (pc \in {"done", "errored"} /\ log_open) => b_shutdowns = 1

\* C4 (as claimed). The log sink's finalize happens only after the pipe
\* reported end-of-stream and only after the child has been waited on.
C4_FinalizeAfterWait ==
    b_shutdowns > 0 => (eof /\ waited)

\* C4 (amended). The log sink's finalize happens only after the pipe's read
\* end has reported end-of-stream (no write end open anywhere, every byte the
\* child wrote read and written to both sinks), and it happens inside tee,
\* before the child is waited on: the wait returns only after it.
C4_FinalizeAfterEofBeforeWait ==
    /\ b_shutdowns > 0 =>
          /\ eof
          /\ w_handles \cup child_handles = {}
          /\ rd = child_out
          /\ TeeA = rd
          /\ TeeB = rd
    /\ pc = "tee_shutdown_b" => ~waited
    /\ waited => b_shutdowns = 1

\* The log has been finalized and the child, still running, has not been
\* waited on.
C4_Witness ==
    /\ b_shutdowns = 1
    /\ eof
    /\ pc = "wait"
    /\ child = "running"
    /\ ~waited

\* C5 (as claimed). On a run that completes, the log sink was fed exactly the
\* banner followed by the child's bytes, and the live stream received the
\* same sequence.
C5_LogIsBannerThenOutput ==
    pc = "done" => /\ log_file = intro \o child_out
                   /\ stderr = log_file

\* C5 (amended). On a run that completes, the log sink was fed exactly the
\* banner, then the line "Game started.", then the child's bytes in the
\* order read; the live stream received the banner followed by the child's
\* bytes, without that line.
C5_LogContent ==
    pc = "done" => /\ log_file = intro \o GameStartedText \o child_out
                   /\ stderr = intro \o child_out

\* A run completed after the child wrote at least two bytes.
C5_Witness ==
    /\ pc = "done"
    /\ Len(child_out) >= 2
    /\ Len(log_file) = Len(stderr) + 1

\* Bytes read from the source and not yet accepted by a, by b.
InFlightA == Len(rd) - Len(TeeA)
InFlightB == Len(rd) - Len(TeeB)

\* C6. Tee back-pressure: while tee runs, the bytes read from the source
\* exceed the bytes accepted by each sink by at most one chunk (the part of
\* the current buffer not yet accepted, at most BufSize bytes), and tee is
\* at a read only when both sinks have accepted every byte read so far.
C6_BackPressure ==
    tee_ret = "running" =>
       /\ InFlightA = Len(buf) - a_pos
       /\ InFlightB = Len(buf) - b_pos
       /\ InFlightA <= BufSize
       /\ InFlightB <= BufSize
       /\ pc = "tee_read" => (InFlightA = 0 /\ InFlightB = 0)

\* A full chunk is in flight: a has accepted all of it, b none of it, and
\* more bytes wait in the pipe unread.
C6_Witness ==
    /\ pc = "tee_write"
    /\ Len(buf) = BufSize
    /\ a_write = "ok"
    /\ b_write = "pending"
    /\ b_pos = 0
    /\ pipe # << >>

\* C7 (as claimed). If a write fails on either sink, tee returns an error,
\* never success, reads no further chunk, and the failure is reported as soon
\* as it is known, whether or not the other sink's write has completed; the
\* first failure is the one reported.
C7_FirstFailureWins ==
    /\ first_fail # "none" => (tee_ret # "ok" /\ pc \in {"tee_write", "errored"})
    /\ (pc = "tee_write" /\ first_fail # "none") => JoinReady(a_write, b_write)
    /\ err = "a_write" => first_fail = "a"
    /\ err = "b_write" => first_fail = "b"

\* C7 (amended). If a write fails on either sink, tee returns an error,
\* never success, and reads no further chunk; the error is returned only when
\* both writes of that chunk have completed (succeeded or failed), and when
\* both have failed it is sink a's error that is returned.
C7_WriteFailureFailsTee ==
    /\ first_fail # "none" => (tee_ret # "ok" /\ pc \in {"tee_write", "errored"})
    /\ (pc = "errored" /\ first_fail # "none") => err \in {"a_write", "b_write"}
    /\ err \in {"a_write", "b_write"} => JoinReady(a_write, b_write)
    /\ err = "a_write" => a_write = "err"
    /\ err = "b_write" => (a_write = "ok" /\ b_write = "err")

\* tee returned a's error although b's write failed first, with bytes left
\* unread in the pipe.
C7_Witness ==
    /\ pc = "errored"
    /\ err = "a_write"
    /\ first_fail = "b"
    /\ pipe # << >>

\* C8. Tee end-of-stream shutdown: once the source has returned a
\* zero-length read and tee has returned, shutdown has been issued to a and
\* to b exactly once each (a failing shutdown of a does not prevent the
\* shutdown of b), after every chunk was written to both; success is
\* returned only if both shutdowns were issued.
C8_ShutdownBoth ==
    /\ (eof /\ tee_ret \in {"ok", "err"}) => (a_shutdowns = 1 /\ b_shutdowns = 1)
    /\ (a_shutdowns > 0 \/ b_shutdowns > 0) => (eof /\ TeeA = rd /\ TeeB = rd)
    /\ a_shutdowns <= 1
    /\ b_shutdowns <= 1

\* C9. Exclusive create: if a file exists at the log path, opening the log
\* sink fails, the file stays as it was, and the run ends in that step: no
\* banner written, no pipe allocated, no child spawned.
C9_ExclusiveCreate ==
    /\ [][(pc = "open_log" /\ fs = OldFile /\ pc' # pc) =>
             (fs' = OldFile /\ pc' = "errored" /\ err' = "open_log")]_vars
    /\ [](err = "open_log" =>
             /\ pc = "errored"
             /\ fs \in {"absent", OldFile}
             /\ ~log_open
             /\ stderr = << >>
             /\ log_file = << >>
             /\ r = "none"
             /\ w_handles = {}
             /\ spawns = 0
             /\ child = "none")

\* The open failed on a pre-existing file, which is still there.
C9_Witness ==
    /\ fs = OldFile
    /\ pc = "errored"
    /\ err = "open_log"

\* The state of the supervisor's state machine at each position of
\* run_game_with_logs.
Phase ==
    CASE pc \in {"open_log", "banner_stderr", "banner_log", "pipe"} -> "Idle"
      [] pc \in {"dup_stdout", "dup_stderr", "spawn"} -> "PipeCreated"
      [] pc \in {"drop_w", "game_started"} -> "ChildSpawned"
      [] pc \in {"tee_read", "tee_write", "tee_shutdown_a", "tee_shutdown_b",
                 "wait"} -> "Relaying"
      [] pc = "drop_r" -> "ChildAwaited"
      [] pc = "done" -> "Done"
      [] pc = "errored" -> "Errored"

PhaseEdges ==
    {<<"Idle", "PipeCreated">>, <<"PipeCreated", "ChildSpawned">>,
     <<"ChildSpawned", "Relaying">>, <<"Relaying", "ChildAwaited">>,
     <<"ChildAwaited", "Done">>}
    \cup {<<p, "Errored">> : p \in {"Idle", "PipeCreated", "ChildSpawned",
                                    "Relaying", "ChildAwaited"}}

\* C10. Supervisor lifecycle order: the supervisor moves only along
\* Idle, PipeCreated, ChildSpawned, Relaying, ChildAwaited, Done, or from a
\* non-terminal state to Errored; Done and Errored are never left; the pipe
\* exists before spawn, the supervisor's write ends are closed after spawn
\* and before the first read of the pipe, and the child is waited on only
\* after tee has completed.
C10_Lifecycle ==
    /\ [][<<pc, Phase>>' # <<pc, Phase>> =>
             /\ Phase \notin {"Done", "Errored"}
             /\ Phase' # Phase => <<Phase, Phase'>> \in PhaseEdges]_vars
    /\ [](/\ Phase = "Idle" => (r = "none" /\ spawns = 0 /\ child = "none")
          /\ Phase = "PipeCreated" => (r = "open" /\ "w" \in w_handles
                                       /\ child = "none")
          /\ spawns > 0 => r # "none"
          /\ spawns <= 1
          /\ Phase = "ChildSpawned" => (spawns = 1 /\ child # "none"
                                        /\ tee_ret = "none" /\ rd = << >>)
          /\ (rd # << >> \/ eof) => (spawns = 1 /\ w_handles = {})
          /\ Phase = "Relaying" => (tee_ret \in {"running", "ok"} /\ ~waited)
          /\ waited => tee_ret = "ok"
          /\ Phase \in {"ChildAwaited", "Done"} => (waited /\ tee_ret = "ok"))

\* A run reached Done: the child was spawned, its output relayed, and it
\* was waited on.
C10_Witness ==
    /\ pc = "done"
    /\ spawns = 1
    /\ waited
    /\ child = "reaped"
    /\ rd # << >>

\* C11. Exit status capture: when the run completes, the outcome the
\* supervisor reports carries the child's exit status: it is success exactly
\* when the child exited with status 0, and differs for a child that exited
\* non-zero or was killed by a signal.
C11_ExitStatusReported ==
    pc = "done" => (ExitCode = 0 <=> child_status = "exited_0")

\* The command has been resolved: main is past the match on the GPU mode.
Resolved ==
    pc \notin {"log_run", "check_empty", "resolve", "exit_1"} /\ err # "log_run"

\* C12. Resolver correctness: mode None yields the command unchanged and no
\* extra environment; Pvkrun, Primusrun and Optirun yield the wrapper's name
\* followed by the command unchanged and no extra environment; NvPrimeRun
\* yields the command unchanged and the fixed three variables; nothing but
\* the mode and the command enters the result.
C12_Resolver ==
    Resolved =>
       /\ args.gpu = "None" =>
             (command = args.command /\ ExtraEnvIter(extra_env) = << >>)
       /\ args.gpu = "Pvkrun" =>
             (command = <<"pvkrun">> \o args.command
              /\ ExtraEnvIter(extra_env) = << >>)
       /\ args.gpu = "Primusrun" =>
             (command = <<"primusrun">> \o args.command
              /\ ExtraEnvIter(extra_env) = << >>)
       /\ args.gpu = "Optirun" =>
             (command = <<"optirun">> \o args.command
              /\ ExtraEnvIter(extra_env) = << >>)
       /\ args.gpu = "NvPrimeRun" =>
             (command = args.command
              /\ Names(ExtraEnvIter(extra_env)) =
                    {"__NV_PRIME_RENDER_OFFLOAD", "__VK_LAYER_NV_optimus",
                     "__GLX_VENDOR_LIBRARY_NAME"}
              /\ Len(ExtraEnvIter(extra_env)) = 3)

\* The command was replaced by the optirun wrapper's command line.
C12_Witness ==
    /\ pc = "execd"
    /\ args.gpu = "Optirun"
    /\ command = <<"optirun", "g", "-x">>
    /\ extra_env = "None"

\* C13. Default offload mode: without --gpu the command is resolved as under
\* an explicit Pvkrun: the pvkrun wrapper's name followed by the command, and
\* no extra environment.
C13_DefaultIsPvkrun ==
    (Resolved /\ args.gpu = "NoGpu") =>
       (command = <<"pvkrun">> \o args.command /\ extra_env = "None")

\* The errors with which an I/O operation after the spawn ends the run.
IoErrs == {"game_started", "read", "a_write", "b_write", "a_shutdown",
           "b_shutdown", "wait"}

\* C14. Deadlock-free completion: once the child is spawned, under fair
\* scheduling (the child terminates, the sinks accept what they are given) the
\* supervisor reaches Done, unless an I/O operation fails and ends the run;
\* it never stays blocked, in particular not on a write end of its own.
C14_ReachesDone ==
    (child # "none") ~> (pc = "done" \/ (pc = "errored" /\ err \in IoErrs))

\* The supervisor reached Done after relaying what the child wrote.
C14_Witness ==
    /\ pc = "done"
    /\ eof
    /\ tee_ret = "ok"
    /\ Len(rd) >= 2
    /\ child = "reaped"

\* C15. Spawn failure is fatal with no retry: spawn is attempted at most
\* once; when it fails the run ends in Errored with a non-zero exit, no child
\* exists, nothing was read from the pipe, nothing is waited on, and both
\* ends of the pipe are closed in the supervisor.
C15_SpawnFailure ==
    /\ spawns <= 1
    /\ err = "spawn" =>
          /\ pc = "errored"
          /\ ExitCode # 0
          /\ spawns = 1
          /\ child = "none"
          /\ rd = << >>
          /\ ~eof
          /\ tee_ret = "none"
          /\ ~waited
          /\ r = "closed"
          /\ w_handles = {}

\* The spawn failed after the banner was written and the pipe allocated.
C15_Witness ==
    /\ err = "spawn"
    /\ pc = "errored"
    /\ log_file = intro
    /\ r = "closed"

\* C16 (as claimed). In every run in which a child was spawned, runs that
\* end in an error included, the read end is closed only when the child has
\* been waited on.
C16_ReadEndOutlivesWait ==
    (child # "none" /\ r = "closed") => waited

\* C16 (amended). In a run that spawned a child and ends without error, the
\* read end is closed only after the child has been waited on; while the run
\* goes on the read end stays open; a run that ends in an error after the
\* spawn closes the read end in the error return, the child not waited on.
C16_ReadEndClosedLast ==
    /\ (child # "none" /\ r = "closed" /\ err = "none") =>
          (waited /\ pc = "done")
    /\ (child # "none" /\ pc \notin {"done", "errored"}) => r = "open"
    /\ (child # "none" /\ r = "closed" /\ ~waited) =>
          (pc = "errored" /\ err \in IoErrs)

\* The run is done: the child was waited on and the read end is closed.
C16_Witness ==
    /\ pc = "done"
    /\ r = "closed"
    /\ waited
    /\ child = "reaped"

\* The banner is complete at the start of what a sink has received.
BannerIn(out) == Len(out) >= Len(intro) /\ SubSeq(out, 1, Len(intro)) = intro

\* C17 (as claimed). The banner is written to both sinks after the pipe has
\* been allocated and before the child is spawned, before any child output.
C17_BannerAfterPipe ==
    /\ (stderr # << >> \/ log_file # << >>) => r # "none"
    /\ child # "none" => (BannerIn(stderr) /\ BannerIn(log_file))

\* C17 (amended). The banner is written completely to the live stream and
\* then to the log sink before the pipe is allocated (in Idle), so before the
\* child is spawned and before any byte of child output reaches either sink.
C17_BannerBeforePipe ==
    /\ pc \in {"banner_stderr", "banner_log"} =>
          (r = "none" /\ child = "none" /\ spawns = 0)
    /\ r # "none" => (BannerIn(stderr) /\ BannerIn(log_file))
    /\ child # "none" => (BannerIn(stderr) /\ BannerIn(log_file))
    /\ rd # << >> => (BannerIn(stderr) /\ BannerIn(log_file))

\* The pipe was just allocated: both sinks hold exactly the banner, and no
\* child exists.
C17_Witness ==
    /\ pc = "dup_stdout"
    /\ r = "open"
    /\ child = "none"
    /\ stderr = intro
    /\ log_file = intro

\* The entries of an environment block that define the name k.
Entries(e, k) == {i \in 1..Len(e) : e[i][1] = k}

\* e is the inherited environment merged with the extra variables: every
\* extra variable is in e exactly once, with its value; every other inherited
\* variable is in e exactly as inherited; e defines nothing else.
IsMerge(e, inherited, extra) ==
    /\ \A j \in 1..Len(extra) :
          /\ Cardinality(Entries(e, extra[j][1])) = 1
          /\ \A i \in Entries(e, extra[j][1]) : e[i] = extra[j]
    /\ \A j \in 1..Len(inherited) :
          inherited[j][1] \notin Names(extra) =>
             /\ Cardinality(Entries(e, inherited[j][1])) = 1
             /\ \A i \in Entries(e, inherited[j][1]) : e[i] = inherited[j]
    /\ Names(e) = Names(inherited) \cup Names(extra)

\* C18. Child environment merge: on the supervised path and on the
\* exec-replace path alike, the environment handed to the command is the
\* inherited environment merged with extra_env (each extra variable exactly
\* once, overriding an inherited one of the same name).
C18_EnvMerge ==
    (child # "none" \/ pc = "execd") =>
       IsMerge(child_env, env, ExtraEnvIter(extra_env))

\* C19. Non-logging path bypasses the supervisor: without --logs the program
\* writes the banner to the live stream and replaces itself with the resolved
\* command, with no log sink, pipe, tee, spawn or wait; with --logs the
\* exec-replace is never performed.
C19_ExecBypass ==
    /\ pc \in {"print_cmd", "exec", "execd"} =>
          /\ ~args.logs
          /\ ~log_open
          /\ fs # "new"
          /\ log_file = << >>
          /\ r = "none"
          /\ w_handles = {}
          /\ tee_ret = "none"
          /\ spawns = 0
          /\ child = "none"
          /\ ~waited
    /\ pc \in {"exec", "execd"} => stderr = intro
    /\ ~args.logs =>
          (~log_open /\ r = "none" /\ spawns = 0 /\ tee_ret = "none" /\ ~waited)
    /\ args.logs => pc \notin {"print_cmd", "exec", "execd"}

\* The program replaced itself with the command, the banner on the live
\* stream.
C19_Witness ==
    /\ pc = "execd"
    /\ ~args.logs
    /\ stderr = intro
    /\ child_env # << >>

\* C20. Empty command is rejected before the core: with an empty command
\* main gets no further than the check, where it reports the error and exits
\* with status 1 (or it panicked in log_run); the resolver does not run, no
\* log file is created, no pipe allocated, nothing spawned or exec'd, with
\* and without --logs.
C20_EmptyCommand ==
    args.command = << >> =>
       /\ pc \in {"log_run", "check_empty", "exit_1", "errored"}
       /\ pc = "errored" => err = "log_run"
       /\ pc = "exit_1" => (ExitCode = 1 /\ stderr = NeedCommandText)
       /\ ~Resolved
       /\ command = << >>
       /\ fs # "new"
       /\ ~log_open
       /\ r = "none"
       /\ spawns = 0
       /\ child = "none"
       /\ child_env = << >>

\* With --logs and an empty command, main exited with status 1.
C20_Witness ==
    /\ args.command = << >>
    /\ args.logs
    /\ pc = "exit_1"
    /\ ExitCode = 1

====
